---- MODULE Spec2Model ----
(***************************************************************************)
(* A model of vendor.py: the vendoring pipeline of rust_crates.            *)
(*                                                                         *)
(*   apply_patches -> cleanup_owners -> destroy_unused_crates              *)
(*                 -> generate_license -> verify_traits                    *)
(*                                                                         *)
(* Strings that the code splits or joins on "-" (directory names, crate    *)
(* names, versions) are sequences of the pieces between the hyphens, so    *)
(* that "{}-{}".format(name, version) is concatenation and                 *)
(* rsplit("-", 1) cuts the last piece off.                                 *)
(***************************************************************************)
EXTENDS Naturals, Sequences, FiniteSets, TLC

VARIABLES
    vendor,            \* the vendor tree: directory name -> directory
    patches,           \* the patches tree: <<>> (no directory) or <<listing>>
    metaU,             \* `cargo metadata` packages, no platform filter
    metaF,             \* `cargo metadata` packages, --filter-platform
    crab_files,        \* crab/crates: crabname -> parsed toml
    args,              \* command line: skip_license_check, license_map
    pc,                \* position of main() and of the running stage
    error,             \* the exception that ended main() and the stage that raised it
    vendor_crate_map,  \* apply_patches: determine_vendor_crates(vendor_path)
    sel, pat, tgt,     \* apply_patches: positions of the three nested loops
    patch_targets,     \* apply_patches: targets of the current selector
    checksums_for,     \* apply_patches: targets that had a patch applied
    patches_failed,    \* apply_patches
    applied,           \* apply_patches: the "-- Applying" lines printed, in order
    failed_targets,    \* apply_patches: the targets of the "Failed to apply" lines
    used_packages,     \* destroy_unused_crates
    didx,              \* destroy_unused_crates: position in metadata packages
    cleaned_packages,  \* destroy_unused_crates
    lidx,              \* generate_license: position in metadata packages
    license_files,     \* generate_license: candidates of the current package
    has_license_types, bad_licenses, license_map, has_unicode_license,
    map_file,          \* the license map artifact: <<>> or <<contents>>
    shorthand_file,    \* licenses_used.txt: <<>> or <<lines>>
    cidx,              \* verify_traits: position in metadata packages
    failing_crates     \* verify_traits

patchVars == <<vendor_crate_map, sel, pat, tgt, patch_targets,
               checksums_for, patches_failed, applied, failed_targets>>
destroyVars == <<used_packages, didx, cleaned_packages>>
licenseVars == <<lidx, license_files, has_license_types, bad_licenses,
                 license_map, has_unicode_license, map_file, shorthand_file>>
crabVars == <<cidx, failing_crates>>
inputVars == <<patches, metaU, metaF, crab_files, args>>
vars == <<vendor, inputVars, pc, error, patchVars, destroyVars,
          licenseVars, crabVars>>

----------------------------------------------------------------------------
(* Generic helpers for dicts (functions) and optional values.               *)

None == <<>>
Some(x) == <<x>>
EmptyDict == [k \in {} |-> TRUE]
Put(f, k, v) == [x \in (DOMAIN f) \cup {k} |-> IF x = k THEN v ELSE f[x]]
Pop(f, k) == [x \in (DOMAIN f) \ {k} |-> f[x]]
Range(s) == {s[i] : i \in DOMAIN s}

----------------------------------------------------------------------------
(* Names.  A name is the sequence of its hyphen-separated pieces.           *)

Foo == <<"foo">>
Windows == <<"windows">>
Riscv == <<"riscv">>
GrpcioSys == <<"grpcio", "sys">>
Bar == <<"bar">>

V1 == <<"1">>
V1beta == <<"1", "beta">>
V2 == <<"2">>

\* "{}-{}".format(name, version)
DirName(name, version) == name \o version

\* crate_name_plus_ver.rsplit("-", 1)[0]
RsplitName(d) == SubSeq(d, 1, Len(d) - 1)

\* The pieces in ascending string order, for list.sort() of names.
PieceOrder == <<"1", "2", "bar", "beta", "foo", "grpcio", "riscv", "sys", "windows">>
PieceRank(t) == CHOOSE i \in DOMAIN PieceOrder : PieceOrder[i] = t

RECURSIVE StrLess(_, _)
StrLess(a, b) ==
    IF a = <<>> THEN b # <<>>
    ELSE IF b = <<>> THEN FALSE
    ELSE IF Head(a) = Head(b) THEN StrLess(Tail(a), Tail(b))
    ELSE PieceRank(Head(a)) < PieceRank(Head(b))

RECURSIVE Sorted(_)
Sorted(S) ==
    IF S = {} THEN <<>>
    ELSE LET m == CHOOSE x \in S : \A y \in S \ {x} : StrLess(x, y)
         IN  <<m>> \o Sorted(S \ {m})

----------------------------------------------------------------------------
(* The vendor tree.  A directory is [files, checksum]: files maps each      *)
(* relative path other than .cargo-checksum.json to the file's content,    *)
(* checksum is None or Some(the parsed .cargo-checksum.json).              *)

NOP_EMPTY_CRATES == {Windows}
EMPTY_CRATE_BODY == "compile_error!"
NOP_EMPTY_CRATE_BODY == "// compile_error!"

\* hashlib.sha256(content).hexdigest()
Sha256(content) == <<"sha256", content>>

IsDir(tree, d) == d \in DOMAIN tree
Write(files, p, c) == Put(files, p, c)
Remove(files, p) == Pop(files, p)

\* The os.walk loop of _rerun_checksums: relative path -> digest.
WalkHashes(dir) == [p \in DOMAIN dir.files |-> Sha256(dir.files[p])]

\* _rerun_checksums(package_path): the directory afterwards.
_rerun_checksums(dir) ==
    IF dir.checksum = None THEN dir
    ELSE LET hashes == WalkHashes(dir)
         IN  IF DOMAIN hashes # {}
             THEN [dir EXCEPT !.checksum =
                       Some([dir.checksum[1] EXCEPT !.files = hashes])]
             ELSE dir

\* The manifest's files mapping is exactly the files on disk, hash by hash.
ChecksumsMatch(dir) ==
    /\ dir.checksum # None
    /\ DOMAIN dir.checksum[1].files = DOMAIN dir.files
    /\ \A p \in DOMAIN dir.files : dir.checksum[1].files[p] = Sha256(dir.files[p])

\* "OWNERS" in cfile
HasOwners(path) == path \in {"OWNERS", "src/OWNERS"}

\* _remove_OWNERS_checksum(root): the directory afterwards.
_remove_OWNERS_checksum(dir) ==
    IF dir.checksum = None THEN dir
    ELSE LET old == dir.checksum[1].files
             del_keys == {p \in DOMAIN old : HasOwners(p)}
         IN  IF del_keys # {}
             THEN [dir EXCEPT !.checksum = Some([dir.checksum[1] EXCEPT
                       !.files = [p \in (DOMAIN old) \ del_keys |-> old[p]]])]
             ELSE dir

----------------------------------------------------------------------------
(* apply_patches                                                            *)

\* An entry of the patches directory: [name, isdir, files]; files lists the
\* kinds of the entries of the selector directory, in os.listdir order:
\*   "patch"  a file named *.patch         "script" another executable file
\*   "plain"  another file                 "dir"    not a file
PatchKinds == {"patch", "script", "plain", "dir"}

\* determine_vendor_crates(vendor_path): {crate_name: [directory]}
determine_vendor_crates(tree) ==
    LET names == {RsplitName(d) : d \in DOMAIN tree}
    IN  [n \in names |-> Sorted({d \in DOMAIN tree : RsplitName(d) = n})]

\* A faulty variant: an unknown selector is skipped instead of raising.
resolve_unknown_skipped(tree, crate_map, d) ==
    IF IsDir(tree, d) THEN Some(<<d>>)
    ELSE IF d \in DOMAIN crate_map THEN Some(crate_map[d])
    ELSE Some(<<>>)

\* Lines 197-203: the targets of selector d, or None for "Unknown crate".
resolve_patch_targets(tree, crate_map, d) ==
    IF IsDir(tree, d) THEN Some(<<d>>)
    ELSE IF d \in DOMAIN crate_map THEN Some(crate_map[d])
    ELSE None

\* Lines 212-218: whether an entry of a selector directory is applied.
is_patch(kind) == kind \in {"patch", "script"}

\* What `patch -p1` or a patch script can leave in the target directory.
PatchPaths == {"src/lib.rs", "new.rs"}
PatchOutcomes(files) ==
    {files} \cup {Write(files, p, "patched") : p \in PatchPaths}
            \cup {Remove(files, p) : p \in PatchPaths \cap DOMAIN files}

\* A faulty variant: the first failed patch ends the pass.
failure_is_fatal(ok) == ~ok

\* Lines 224-226: a failed patch is recorded, the loop goes on.
raise_on_failure(ok) == FALSE

\* Lines 224-226: patches_failed after one application.
record_failure(failed, ok) == failed \/ ~ok

\* A faulty variant: the licenses are generated before the unused crates are
\* destroyed.
main_next_license_first(stage) ==
    CASE stage = "apply_patches" -> "cleanup_owners"
      [] stage = "cleanup_owners" -> "generate_license"
      [] stage = "generate_license" -> "destroy_unused_crates"
      [] stage = "destroy_unused_crates" -> "verify_traits"
      [] stage = "verify_traits" -> "done"

\* main(): the call that follows the return of each call.
main_next(stage) ==
    CASE stage = "apply_patches" -> "cleanup_owners"
      [] stage = "cleanup_owners" -> "destroy_unused_crates"
      [] stage = "destroy_unused_crates" -> "generate_license"
      [] stage = "generate_license" -> "verify_traits"
      [] stage = "verify_traits" -> "done"

NoError == [stage |-> "", exc |-> "none"]
Raise(stage, exc) == pc' = "failed" /\ error' = [stage |-> stage, exc |-> exc]

apply_patches_begin ==
    /\ pc = "apply_patches"
    /\ IF patches = None
       THEN /\ pc' = main_next("apply_patches")
            /\ UNCHANGED vendor_crate_map
       ELSE /\ pc' = "patch_selector"
            /\ vendor_crate_map' = determine_vendor_crates(vendor)
    /\ UNCHANGED <<vendor, inputVars, error, sel, pat, tgt, patch_targets,
                   checksums_for, patches_failed, applied, failed_targets,
                   destroyVars, licenseVars, crabVars>>

\* for d in os.listdir(patches_path)
patch_selector ==
    /\ pc = "patch_selector"
    /\ IF sel > Len(patches[1])
       THEN pc' = "patch_finish" /\ UNCHANGED <<sel, pat, patch_targets, error>>
       ELSE LET d == patches[1][sel]
                targets == resolve_patch_targets(vendor, vendor_crate_map, d.name)
            IN  IF ~d.isdir
                THEN /\ sel' = sel + 1
                     /\ UNCHANGED <<pc, pat, patch_targets, error>>
                ELSE IF targets = None
                THEN /\ Raise("apply_patches", "RuntimeError")
                     /\ UNCHANGED <<sel, pat, patch_targets>>
                ELSE /\ patch_targets' = targets[1]
                     /\ pat' = 1
                     /\ pc' = "patch_file"
                     /\ UNCHANGED <<sel, error>>
    /\ UNCHANGED <<vendor, inputVars, vendor_crate_map, tgt, checksums_for,
                   patches_failed, applied, failed_targets,
                   destroyVars, licenseVars, crabVars>>

\* for patch in os.listdir(dir_path)
patch_file ==
    /\ pc = "patch_file"
    /\ LET files == patches[1][sel].files
       IN  IF pat > Len(files)
           THEN sel' = sel + 1 /\ pc' = "patch_selector" /\ UNCHANGED <<pat, tgt>>
           ELSE IF is_patch(files[pat])
           THEN tgt' = 1 /\ pc' = "patch_apply" /\ UNCHANGED <<sel, pat>>
           ELSE pat' = pat + 1 /\ UNCHANGED <<sel, tgt, pc>>
    /\ UNCHANGED <<vendor, inputVars, error, vendor_crate_map, patch_targets,
                   checksums_for, patches_failed, applied, failed_targets,
                   destroyVars, licenseVars, crabVars>>

\* for target_name in patch_targets
patch_apply ==
    /\ pc = "patch_apply"
    /\ IF tgt > Len(patch_targets)
       THEN /\ pat' = pat + 1
            /\ pc' = "patch_file"
            /\ UNCHANGED <<vendor, tgt, checksums_for, patches_failed, applied,
                           failed_targets, error>>
       ELSE LET target == patch_targets[tgt]
            IN  \E ok \in BOOLEAN : \E files \in PatchOutcomes(vendor[target].files) :
                  /\ checksums_for' = checksums_for \cup {target}
                  /\ applied' = Append(applied, [selector |-> sel, patch |-> pat,
                                                 target |-> target])
                  /\ vendor' = [vendor EXCEPT ![target].files = files]
                  /\ failed_targets' = IF ok THEN failed_targets ELSE failed_targets \cup {target}
                  /\ patches_failed' = record_failure(patches_failed, ok)
                  /\ IF raise_on_failure(ok)
                     THEN Raise("apply_patches", "ValueError") /\ UNCHANGED <<tgt, pat>>
                     ELSE tgt' = tgt + 1 /\ UNCHANGED <<pat, pc, error>>
    /\ UNCHANGED <<inputVars, vendor_crate_map, sel, patch_targets,
                   destroyVars, licenseVars, crabVars>>

\* Lines 228-235: the failure is raised first, the checksums come after.
patch_finish ==
    /\ pc = "patch_finish"
    /\ IF patches_failed
       THEN Raise("apply_patches", "ValueError") /\ UNCHANGED vendor
       ELSE /\ vendor' = [d \in DOMAIN vendor |->
                            IF d \in checksums_for THEN _rerun_checksums(vendor[d])
                            ELSE vendor[d]]
            /\ pc' = main_next("apply_patches")
            /\ UNCHANGED error
    /\ UNCHANGED <<inputVars, patchVars, destroyVars, licenseVars, crabVars>>

\* cleanup_owners(vendor)
cleanup_owners ==
    /\ pc = "cleanup_owners"
    /\ vendor' = [d \in DOMAIN vendor |-> _remove_OWNERS_checksum(vendor[d])]
    /\ pc' = main_next("cleanup_owners")
    /\ UNCHANGED <<inputVars, error, patchVars, destroyVars, licenseVars, crabVars>>

----------------------------------------------------------------------------
(* CrateDestroyer.  A parsed Cargo.toml is a function from the keys that     *)
(* are present to their values; dict.pop(key, None) is Pop.                  *)

Get(t, k) == IF k \in DOMAIN t THEN Some(t[k]) ELSE None
\* Python truthiness of dict.get(key): present and not an empty table.
Truthy(t, k) == k \in DOMAIN t /\ DOMAIN t[k] # {}

RECURSIVE PopAll(_, _)
PopAll(t, keys) ==
    IF keys = {} THEN t
    ELSE LET k == CHOOSE x \in keys : TRUE IN PopAll(Pop(t, k), keys \ {k})

\* clean_source_related_lines_in_place(cargo_toml)
clean_source_related_lines_in_place(t) ==
    LET t1 == PopAll(t, {"bench", "bin", "examples", "test"})
        t2 == IF Truthy(t1, "lib")
              THEN [t1 EXCEPT !["lib"] = Pop(t1["lib"], "path")] ELSE t1
    IN  IF Truthy(t2, "package")
        THEN [t2 EXCEPT !["package"] =
                 PopAll(t2["package"], {"build", "default-run", "include"})]
        ELSE t2

\* A faulty variant: the features table is deleted.
clean_features_deleted(t) == Pop(t, "features")

\* clean_features_in_place(cargo_toml)
clean_features_in_place(t) ==
    IF ~Truthy(t, "features") THEN t
    ELSE [t EXCEPT !["features"] = [name \in DOMAIN t["features"] |-> <<>>]]

DependencyKeys == {"build-dependencies", "dependencies", "dev-dependencies"}

\* remove_all_dependencies_in_place(cargo_toml)
remove_all_dependencies_in_place(t) ==
    LET t1 == PopAll(t, DependencyKeys)
    IN  IF ~Truthy(t1, "target") THEN t1
        ELSE LET target == [key \in DOMAIN t1["target"] |->
                              PopAll(t1["target"][key], DependencyKeys)]
                 empty_keys == {key \in DOMAIN target : DOMAIN target[key] = {}}
             IN  IF Cardinality(empty_keys) = Cardinality(DOMAIN target)
                 THEN Pop(t1, "target")
                 ELSE [t1 EXCEPT !["target"] =
                          [key \in (DOMAIN target) \ empty_keys |-> target[key]]]

\* CrateDestroyer._modify_cargo_toml: the contents written back (the caller
\* has checked that contents["package"] exists).
_modify_cargo_toml(contents) ==
    LET package == PopAll(
            Put(Put(contents["package"],
                    "description", "Empty crate that should not build."),
                "license", "Apache-2.0"),
            {"license_file", "links"})
        c1 == [contents EXCEPT !["package"] = package]
    IN  clean_source_related_lines_in_place(
            remove_all_dependencies_in_place(clean_features_in_place(c1)))

\* A faulty variant: the checksum file is not restored.
replace_without_sidecar(dir, compile_error) ==
    [files |-> [p \in {"src/lib.rs", "Cargo.toml"} |->
                  IF p = "Cargo.toml" THEN dir.files["Cargo.toml"]
                  ELSE IF compile_error THEN EMPTY_CRATE_BODY
                  ELSE NOP_EMPTY_CRATE_BODY],
     checksum |-> None]

\* CrateDestroyer._replace_source_contents: the directory afterwards (the
\* caller has checked that both files it reads exist).
_replace_source_contents(dir, compile_error) ==
    [files |-> [p \in {"src/lib.rs", "Cargo.toml"} |->
                  IF p = "Cargo.toml" THEN dir.files["Cargo.toml"]
                  ELSE IF compile_error THEN EMPTY_CRATE_BODY
                  ELSE NOP_EMPTY_CRATE_BODY],
     checksum |-> dir.checksum]

\* Lines 790-792 and 799-801: the names of the platform-filtered packages.
used_names(packages) == {p.name : p \in Range(packages)}

\* A faulty variant: no package is skipped.
is_used_never(package, used) == FALSE

is_used(package, used) == package.name \in used

\* A faulty variant: every stub is the compile error.
compile_error_always(package_name) == TRUE

\* Line 813: compile_error=package_name not in NOP_EMPTY_CRATES
compile_error(package_name) == package_name \notin NOP_EMPTY_CRATES

destroy_begin ==
    /\ pc = "destroy_unused_crates"
    /\ used_packages' = used_names(metaF)
    /\ pc' = "destroy_loop"
    /\ UNCHANGED <<vendor, inputVars, error, patchVars, didx, cleaned_packages,
                   licenseVars, crabVars>>

\* for package in metadata["packages"]
destroy_loop ==
    /\ pc = "destroy_loop"
    /\ IF didx > Len(metaU)
       THEN /\ pc' = main_next("destroy_unused_crates")
            /\ UNCHANGED <<vendor, didx, cleaned_packages, error>>
       ELSE LET package == metaU[didx]
                pkg_path == DirName(package.name, package.version)
            IN  IF is_used(package, used_packages) \/ ~IsDir(vendor, pkg_path)
                THEN /\ didx' = didx + 1
                     /\ UNCHANGED <<vendor, cleaned_packages, pc, error>>
                ELSE IF \/ vendor[pkg_path].checksum = None
                        \/ "Cargo.toml" \notin DOMAIN vendor[pkg_path].files
                THEN /\ Raise("destroy_unused_crates", "FileNotFoundError")
                     /\ UNCHANGED <<vendor, didx, cleaned_packages>>
                ELSE LET replaced == _replace_source_contents(
                             vendor[pkg_path], compile_error(package.name))
                         cargo == replaced.files["Cargo.toml"]
                     IN  IF "package" \notin DOMAIN cargo
                         THEN /\ vendor' = [vendor EXCEPT ![pkg_path] = replaced]
                              /\ Raise("destroy_unused_crates", "KeyError")
                              /\ UNCHANGED <<didx, cleaned_packages>>
                         ELSE /\ vendor' = [vendor EXCEPT ![pkg_path] =
                                   _rerun_checksums([replaced EXCEPT
                                       !.files["Cargo.toml"] = _modify_cargo_toml(cargo)])]
                              /\ cleaned_packages' = Append(cleaned_packages, package.name)
                              /\ didx' = didx + 1
                              /\ UNCHANGED <<pc, error>>
    /\ UNCHANGED <<inputVars, patchVars, used_packages, licenseVars, crabVars>>

----------------------------------------------------------------------------
(* LicenseManager.  A license expression is the sequence of its terms and    *)
(* of the delimiters " OR " and "/" between them; the empty sequence is      *)
(* the empty string (no license in the metadata).                            *)

SUPPORTED_LICENSES ==
    [f \in {"0BSD", "Apache-2.0", "BSD-3-Clause", "ISC", "MIT", "MPL-2.0",
            "unicode", "Zlib"} |->
        CASE f = "BSD-3-Clause" -> "BSD-3"
          [] f = "Zlib" -> "ZLIB"
          [] OTHER -> f]
PREFERRED_ATTRIB_LICENSE_ORDER == <<"MIT", "BSD-3", "ISC">>
\* A faulty variant: another license is taken as the privileged one.
MIT_LICENSE == "MIT"
APACHE_LICENSE == "Apache-2.0"
MAP_LICENSE_TO_OTHER == {GrpcioSys}
STATIC_LICENSE_MAP == [n \in {Riscv} |-> [license |-> "ISC", license_file |-> <<"README.md">>]]

\* "(MIT OR Apache-2.0) AND Unicode-DFS-2016"
UNICODE_COMPOUND == <<"(MIT", " OR ", "Apache-2.0) AND Unicode-DFS-2016">>
UNICODE_COMPOUND_STR == "(MIT OR Apache-2.0) AND Unicode-DFS-2016"

\* str.strip() of one term.
Strip(term) ==
    CASE term = " Apache-2.0" -> "Apache-2.0"
      [] term = "MIT " -> "MIT"
      [] OTHER -> term

\* license.split(delim): each piece is the sequence of what it holds.
RECURSIVE Split(_, _, _)
Split(license, delim, piece) ==
    IF license = <<>> THEN <<piece>>
    ELSE IF Head(license) = delim
    THEN <<piece>> \o Split(Tail(license), delim, <<>>)
    ELSE Split(Tail(license), delim, Append(piece, Head(license)))

\* Lines 478-479: found = [x.strip() for x in license.split(delim)]; a piece
\* that still holds the other delimiter is no license name.
found_terms(license) ==
    LET delim == IF " OR " \in Range(license) THEN " OR " ELSE "/"
        pieces == Split(license, delim, <<>>)
    IN  [i \in DOMAIN pieces |->
            IF Len(pieces[i]) = 1 THEN Strip(pieces[i][1]) ELSE "" ]

\* Lines 482-486: the supported licenses among them, as the ebuilds name them.
RECURSIVE supported_of(_)
supported_of(found) ==
    IF found = <<>> THEN <<>>
    ELSE (IF Head(found) \in DOMAIN SUPPORTED_LICENSES
          THEN <<SUPPORTED_LICENSES[Head(found)]>> ELSE <<>>)
         \o supported_of(Tail(found))
licenses_or_of(license) == supported_of(found_terms(license))

\* The three LICENSE_NAMES_REGEX, with re.IGNORECASE, on the file names of
\* the model.
LICENSE_NAMES_REGEX ==
    << {"LICENSE-MIT"},
       {"COPYRIGHT"},
       {"LICENSE", "LICENSE-MIT", "LICENSE-APACHE", "LICENSE-BSD", "LICENSE-UNICODE"} >>
\* The files directly under a package directory (os.path.isfile of a listed
\* name): src/ is a directory.
TopLevelFiles(dir) == {p \in DOMAIN dir.files : p \notin {"src/lib.rs", "src/OWNERS"}}

\* _find_license_in_dir(search_dir): the names it yields; os.listdir gives
\* them in any order.
license_candidates(dir) ==
    {p \in TopLevelFiles(dir) : \E i \in DOMAIN LICENSE_NAMES_REGEX : p \in LICENSE_NAMES_REGEX[i]}
Orderings(S) ==
    {s \in [1..Cardinality(S) -> S] : \A i, j \in DOMAIN s : s[i] = s[j] => i = j}

\* Which of the searched words a file's content holds.
ContentHas(content, word) ==
    CASE content = "mit text" -> word = "MIT"
      [] content = "apache text" -> word = "Apache"
      [] content = "bsd3 text" -> word = "BSD 3-Clause"
      [] content = "bsd3 text, LIMITED" -> word \in {"MIT", "BSD 3-Clause"}
      [] OTHER -> FALSE
\* Which of the searched words a path holds (no directory of the model
\* holds one).
PathHas(name, word) ==
    CASE word = "-MIT" -> name = "LICENSE-MIT"
      [] word = "-APACHE" -> name = "LICENSE-APACHE"
      [] word = "-BSD" -> name = "LICENSE-BSD"
      [] OTHER -> FALSE

\* Lines 379-388: the guess from the content alone.
guess_by_content(content) ==
    IF ContentHas(content, "MIT") THEN "MIT"
    ELSE IF ContentHas(content, "Apache") THEN "APACHE"
    ELSE IF ContentHas(content, "BSD 3-Clause") THEN "BSD-3"
    ELSE ""

\* _guess_license_type(license_file)
_guess_license_type(name, content) ==
    IF PathHas(name, "-MIT") THEN "MIT"
    ELSE IF PathHas(name, "-APACHE") THEN "APACHE"
    ELSE IF PathHas(name, "-BSD") THEN "BSD-3"
    ELSE guess_by_content(content)

\* os.path.relpath(f, self.working_dir); os.path.join(search_dir, p)
RelPath(d, f) == <<"vendor", d, f>>
AbsPath(d, f) == <<"/", "vendor", d, f>>

\* Lines 513-532: the first preferred kind among the terms that a candidate
\* file is guessed to be, with the first such file; None when there is none.
RECURSIVE preferred_match(_, _, _, _)
preferred_match(order, terms, files, dir) ==
    IF order = <<>> THEN None
    ELSE LET l == Head(order)
             hits == {i \in DOMAIN files : _guess_license_type(files[i], dir.files[files[i]]) = l}
         IN  IF l \in Range(terms) /\ hits # {}
             THEN Some([license |-> l,
                        file |-> files[CHOOSE i \in hits : \A j \in hits : i <= j]])
             ELSE preferred_match(Tail(order), terms, files, dir)

\* A faulty variant: Apache-2.0 is preferred only when it is the first term.
apache_first_only(terms) == terms # <<>> /\ terms[1] = APACHE_LICENSE

\* Line 490.
has_apache(terms) == APACHE_LICENSE \in Range(terms)

\* A faulty variant: the last candidate file is taken.
last_license_file(files) == files[Len(files)]

\* Lines 498-499: lf = license_files[0]
first_license_file(files) == files[1]

\* Lines 408-426: the packages the loop skips.
is_skipped(package) ==
    \/ package.virtual
    \/ package.name \in args.skip_license_check
    \/ package.name \in MAP_LICENSE_TO_OTHER

\* for package in metadata["packages"]
license_loop ==
    /\ pc = "generate_license"
    /\ lidx <= Len(metaF)
    /\ LET package == metaF[lidx]
           pkg_name == package.name
           d == DirName(pkg_name, package.version)
       IN  IF is_skipped(package)
           THEN /\ lidx' = lidx + 1
                /\ UNCHANGED <<license_files, has_license_types, bad_licenses,
                               license_map, has_unicode_license, pc, error>>
           ELSE IF pkg_name \in DOMAIN STATIC_LICENSE_MAP
           THEN /\ license_map' = Put(license_map, pkg_name, STATIC_LICENSE_MAP[pkg_name])
                /\ lidx' = lidx + 1
                /\ UNCHANGED <<license_files, has_license_types, bad_licenses,
                               has_unicode_license, pc, error>>
           ELSE IF ~IsDir(vendor, d)
           THEN /\ Raise("generate_license", "FileNotFoundError")
                /\ UNCHANGED <<lidx, license_files, has_license_types, bad_licenses,
                               license_map, has_unicode_license>>
           ELSE \E files \in Orderings(license_candidates(vendor[d])) :
                LET terms == licenses_or_of(package.license)
                IN  /\ license_files' = files
                    /\ IF package.license = UNICODE_COMPOUND
                       THEN IF "LICENSE-UNICODE" \in Range(files)
                            THEN /\ has_unicode_license' = TRUE
                                 /\ license_map' = Put(license_map, pkg_name,
                                        [license |-> UNICODE_COMPOUND_STR,
                                         license_file |-> AbsPath(d, "LICENSE-UNICODE")])
                                 /\ has_license_types' = has_license_types \cup {"unicode"}
                                 /\ lidx' = lidx + 1
                                 /\ UNCHANGED <<bad_licenses, pc, error>>
                            ELSE /\ has_unicode_license' = TRUE
                                 /\ Raise("generate_license", "ValueError")
                                 /\ UNCHANGED <<lidx, has_license_types, bad_licenses,
                                                license_map>>
                       ELSE /\ lidx' = lidx + 1
                            /\ UNCHANGED <<has_unicode_license, pc, error>>
                            /\ IF has_apache(terms)
                               THEN /\ has_license_types' = has_license_types \cup {APACHE_LICENSE}
                                    /\ license_map' = Put(license_map, pkg_name,
                                                          [license |-> APACHE_LICENSE])
                                    /\ UNCHANGED bad_licenses
                               ELSE IF Len(terms) = 1
                               THEN IF files # <<>>
                                    THEN /\ has_license_types' = has_license_types \cup {terms[1]}
                                         /\ license_map' = Put(license_map, pkg_name,
                                                [license |-> terms[1],
                                                 license_file |-> RelPath(d, first_license_file(files))])
                                         /\ UNCHANGED bad_licenses
                                    ELSE /\ bad_licenses' = Put(bad_licenses, pkg_name,
                                                [reason |-> "missing license file",
                                                 license |-> <<terms[1]>>])
                                         /\ UNCHANGED <<has_license_types, license_map>>
                               ELSE IF Len(terms) > 1
                               THEN LET m == preferred_match(PREFERRED_ATTRIB_LICENSE_ORDER,
                                                             terms, files, vendor[d])
                                    IN  IF m # None
                                        THEN /\ has_license_types' = has_license_types \cup {m[1].license}
                                             /\ license_map' = Put(license_map, pkg_name,
                                                    [license |-> m[1].license,
                                                     license_file |-> RelPath(d, m[1].file)])
                                             /\ UNCHANGED bad_licenses
                                        ELSE UNCHANGED <<has_license_types, license_map,
                                                         bad_licenses>>
                               ELSE /\ bad_licenses' = Put(bad_licenses, pkg_name,
                                           [reason |-> "no acceptable license",
                                            license |-> package.license])
                                    /\ UNCHANGED <<has_license_types, license_map>>
    /\ UNCHANGED <<vendor, inputVars, patchVars, destroyVars, map_file,
                   shorthand_file, crabVars>>

\* sorted(has_license_types), on the license kinds of SUPPORTED_LICENSES.
LicenseOrder == <<"0BSD", "Apache-2.0", "BSD-3", "ISC", "MIT", "MPL-2.0", "ZLIB", "unicode">>
sorted_licenses(types) ==
    LET idx == {i \in DOMAIN LicenseOrder : LicenseOrder[i] \in types}
        nth[k \in 0..Cardinality(idx)] ==
            IF k = 0 THEN 0
            ELSE CHOOSE i \in idx : i > nth[k - 1] /\ \A j \in idx : j > nth[k - 1] => i <= j
    IN  [k \in 1..Cardinality(idx) |-> LicenseOrder[nth[k]]]

\* A faulty variant: the compound license is accepted on its own.
needs_apache_never(unicode, types) == FALSE

\* Lines 573-574: a compound license was seen and Apache-2.0 is not in use.
needs_apache(unicode, types) == unicode /\ APACHE_LICENSE \notin types

\* Lines 536-591, after the loop.
license_finish ==
    /\ pc = "generate_license"
    /\ lidx > Len(metaF)
    /\ IF DOMAIN bad_licenses # {}
       THEN Raise("generate_license", "Exception") /\ UNCHANGED <<map_file, shorthand_file>>
       ELSE /\ map_file' = IF args.license_map THEN Some(license_map) ELSE map_file
            /\ IF \E name \in DOMAIN license_map :
                     /\ "license_file" \notin DOMAIN license_map[name]
                     /\ license_map[name].license # APACHE_LICENSE
               THEN Raise("generate_license", "Exception")
                    /\ UNCHANGED shorthand_file
               ELSE IF needs_apache(has_unicode_license, has_license_types)
               THEN Raise("generate_license", "ValueError") /\ UNCHANGED shorthand_file
               ELSE /\ shorthand_file' = Some(sorted_licenses(has_license_types))
                    /\ pc' = main_next("generate_license")
                    /\ UNCHANGED error
    /\ UNCHANGED <<vendor, inputVars, patchVars, destroyVars, lidx, license_files,
                   has_license_types, bad_licenses, license_map, has_unicode_license,
                   crabVars>>

----------------------------------------------------------------------------
(* CrabManager                                                              *)

\* CrabManager._check_bad_traits(crabdata): any([common.get("deny", None)])
_check_bad_traits(crabdata) ==
    "deny" \in DOMAIN crabdata.common /\ crabdata.common["deny"]

\* A faulty variant: the identity check looks at the crate name only.
record_mismatch_name_only(package, crabdata) == package.name # crabdata.crate_name

\* Lines 647-650.
record_mismatch(package, crabdata) ==
    package.name # crabdata.crate_name \/ package.version # crabdata.version

\* for package in metadata["packages"]
crab_loop ==
    /\ pc = "verify_traits"
    /\ cidx <= Len(metaF)
    /\ LET package == metaF[cidx]
           crabname == DirName(package.name, package.version)
       IN  /\ cidx' = cidx + 1
           /\ IF package.virtual
              THEN UNCHANGED failing_crates
              ELSE IF crabname \notin DOMAIN crab_files
              THEN failing_crates' = Put(failing_crates, crabname, "No crab file")
              ELSE IF record_mismatch(package, crab_files[crabname])
              THEN failing_crates' = Put(failing_crates, crabname,
                                         "Crate name or version don't match")
              ELSE IF _check_bad_traits(crab_files[crabname])
              THEN failing_crates' = Put(failing_crates, crabname,
                                         "Failed bad traits check")
              ELSE UNCHANGED failing_crates
    /\ UNCHANGED <<vendor, inputVars, pc, error, patchVars, destroyVars, licenseVars>>

\* Lines 657-662, and the return of main().
crab_finish ==
    /\ pc = "verify_traits"
    /\ cidx > Len(metaF)
    /\ IF DOMAIN failing_crates # {}
       THEN Raise("verify_traits", "ValueError")
       ELSE pc' = main_next("verify_traits") /\ UNCHANGED error
    /\ UNCHANGED <<vendor, inputVars, patchVars, destroyVars, licenseVars, crabVars>>

----------------------------------------------------------------------------
(* Inputs: packages, Cargo.toml files and vendored directories.             *)

Pkg(name, version, license) ==
    [name |-> name, version |-> version, virtual |-> FALSE, license |-> license]
\* The workspace package: its id holds "path+file:///".
RootPkg ==
    [name |-> <<"projects">>, version |-> <<"0">>, virtual |-> TRUE, license |-> <<>>]

ApacheOrMit == <<"MIT", " OR ", "Apache-2.0">>
MitOnly == <<"MIT">>

\* A Cargo.toml with every kind of key the destroyer looks at.
CargoToml(name, version) ==
    ("package" :> ( "name" :> name @@ "version" :> version
                    @@ "description" :> "A crate." @@ "license" :> "MIT"
                    @@ "license_file" :> "LICENSE" @@ "links" :> "native"
                    @@ "build" :> "build.rs" @@ "include" :> "src/**"
                    @@ "edition" :> "2021" ))
    @@ "features" :> ("default" :> <<"std">> @@ "std" :> <<"dep/std">>)
    @@ "dependencies" :> "dep"
    @@ "dev-dependencies" :> "devdep"
    @@ "build-dependencies" :> "builddep"
    @@ "target" :> ( "cfg(windows)" :> ("dependencies" :> "winapi")
                     @@ "cfg(unix)" :> ("dependencies" :> "libc" @@ "rustflags" :> "-C") )
    @@ "bin" :> "tool"
    @@ "bench" :> "speed"
    @@ "test" :> "it"
    @@ "example" :> "demo"
    @@ "lib" :> ("path" :> "src/lib.rs" @@ "name" :> name)

\* A freshly vendored directory: cargo vendor writes the manifest of what it
\* wrote, unless `sidecar` is FALSE.
FreshDir(name, version, extra, sidecar) ==
    LET files == ("Cargo.toml" :> CargoToml(name, version) @@ "src/lib.rs" :> "orig")
                 @@ extra
    IN  [files |-> files,
         checksum |-> IF sidecar
                      THEN Some([files |-> [p \in DOMAIN files |-> Sha256(files[p])],
                                 package |-> "package sha256"])
                      ELSE None]

NoArgs == [skip_license_check |-> {}, license_map |-> FALSE]

StageLocalsInit ==
    /\ error = NoError
    /\ vendor_crate_map = EmptyDict /\ sel = 1 /\ pat = 1 /\ tgt = 1
    /\ patch_targets = <<>> /\ checksums_for = {} /\ patches_failed = FALSE
    /\ applied = <<>> /\ failed_targets = {}
    /\ used_packages = {} /\ didx = 1 /\ cleaned_packages = <<>>
    /\ lidx = 1 /\ license_files = <<>> /\ has_license_types = {}
    /\ bad_licenses = EmptyDict /\ license_map = EmptyDict
    /\ has_unicode_license = FALSE /\ map_file = None /\ shorthand_file = None
    /\ cidx = 1 /\ failing_crates = EmptyDict

----------------------------------------------------------------------------
(* SpecPatch: apply_patches alone, on every patches tree of the bounds.     *)

\* The number of entries in all the selector directories together.
MaxPatchFiles == 2

NoSuch == <<"nosuch">>
SelectorNames == {Foo, DirName(Foo, V1), NoSuch}
FileLists(n) == UNION {[1..k -> PatchKinds] : k \in 0..n}
SelectorEntries(n) ==
    {[name |-> nm, isdir |-> FALSE, files |-> <<>>] : nm \in SelectorNames}
    \cup {[name |-> nm, isdir |-> TRUE, files |-> f] : nm \in SelectorNames, f \in FileLists(n)}
\* The listings of one or two entries; a listing holds each name once.
Listings(n) ==
    {<<>>} \cup {<<e>> : e \in SelectorEntries(n)}
           \cup UNION {{<<e1, e2>> : e2 \in {e \in SelectorEntries(n - Len(e1.files)) :
                                              e.isdir /\ e.name # e1.name}}
                       : e1 \in SelectorEntries(n)}
PatchTrees(n) == {None} \cup {Some(l) : l \in Listings(n)}

PatchVendor ==
    DirName(Foo, V1) :> FreshDir(Foo, V1, EmptyDict, TRUE)
    @@ DirName(Foo, V1beta) :> FreshDir(Foo, V1beta, EmptyDict, TRUE)
    @@ DirName(Foo, V2) :> FreshDir(Foo, V2, EmptyDict, FALSE)

InitPatch ==
    /\ StageLocalsInit /\ pc = "apply_patches"
    /\ vendor = PatchVendor
    /\ patches \in PatchTrees(MaxPatchFiles)
    /\ metaU = <<>> /\ metaF = <<>> /\ crab_files = EmptyDict /\ args = NoArgs

NextPatch ==
    \/ apply_patches_begin
    \/ patch_selector
    \/ patch_file
    \/ patch_apply
    \/ patch_finish

SpecPatch == InitPatch /\ [][NextPatch]_vars

----------------------------------------------------------------------------
(* Spec: main(), from the return of run_cargo_vendor to the end.            *)

\* The number of entries in the selector directories of the pipeline runs.
PipelinePatchFiles == 1

Foo1 == Pkg(Foo, V1, ApacheOrMit)
Win1 == Pkg(Windows, V1, MitOnly)
CrabOk(p) == [crate_name |-> p.name, version |-> p.version, common |-> [deny |-> FALSE]]
CrabDenied(p) == [crate_name |-> p.name, version |-> p.version, common |-> [deny |-> TRUE]]

Init ==
    /\ StageLocalsInit /\ pc = "apply_patches"
    /\ patches \in PatchTrees(PipelinePatchFiles)
    /\ \E lic \in {ApacheOrMit, <<"GPL-3.0">>} :
          metaU = <<RootPkg, Pkg(Foo, V1, lic), Win1>>
    /\ \E linux \in SUBSET {Foo, Windows} :
          metaF = SelectSeq(metaU, LAMBDA p : p.virtual \/ p.name \in linux)
    /\ \E sidecar \in BOOLEAN : \E win \in BOOLEAN :
          vendor = (DirName(Foo, V1) :> FreshDir(Foo, V1, "OWNERS" :> "owners", sidecar))
                   @@ (IF win THEN DirName(Windows, V1) :>
                                   FreshDir(Windows, V1, "LICENSE-MIT" :> "mit text", TRUE)
                       ELSE EmptyDict)
    /\ \E rec \in {CrabOk(Foo1), CrabDenied(Foo1)} :
          crab_files = (DirName(Foo, V1) :> rec) @@ (DirName(Windows, V1) :> CrabOk(Win1))
    /\ args = NoArgs

Next ==
    \/ apply_patches_begin
    \/ patch_selector
    \/ patch_file
    \/ patch_apply
    \/ patch_finish
    \/ cleanup_owners
    \/ destroy_begin
    \/ destroy_loop
    \/ license_loop
    \/ license_finish
    \/ crab_loop
    \/ crab_finish

Spec == Init /\ [][Next]_vars

----------------------------------------------------------------------------
(* Claims about apply_patches.                                              *)

PatchesEnded == pc = main_next("apply_patches") \/ (pc = "failed" /\ error.stage = "apply_patches")
PatchesRaised(exc) == pc = "failed" /\ error = [stage |-> "apply_patches", exc |-> exc]

\* The names the program knows: the existing directories, and what
\* rsplit("-", 1) makes of them.
KnownCrateNames == {RsplitName(d) : d \in DOMAIN vendor}
SelectorKnown(name) == name \in DOMAIN vendor \/ name \in KnownCrateNames
DirSelectors == {i \in DOMAIN patches[1] : patches[1][i].isdir}
AllSelectorsResolve ==
    patches # None /\ \A i \in DirSelectors : SelectorKnown(patches[1][i].name)

\* The directories a resolving selector stands for, read off the tree.
TargetsOf(name) ==
    IF name \in DOMAIN vendor THEN {name}
    ELSE {d \in DOMAIN vendor : RsplitName(d) = name}
\* Every (patch, target) pair of every selector.
AllPairs ==
    {[selector |-> i, patch |-> j, target |-> t] :
        i \in DirSelectors, j \in 1..MaxPatchFiles, t \in DOMAIN vendor}
ExpectedPairs ==
    {a \in AllPairs :
        /\ a.patch \in DOMAIN patches[1][a.selector].files
        /\ patches[1][a.selector].files[a.patch] \in {"patch", "script"}
        /\ a.target \in TargetsOf(patches[1][a.selector].name)}

\* C3: when every selector resolves, apply_patches ends only after every
\* (patch, target) pair of every selector has been attempted, each once; it
\* ends with the one ValueError exactly when some attempt failed, and
\* without an error exactly when none did.
C3_FailuresCollected ==
    (AllSelectorsResolve /\ PatchesEnded) =>
        /\ Range(applied) = ExpectedPairs
        /\ Len(applied) = Cardinality(ExpectedPairs)
        /\ (failed_targets # {}) <=> PatchesRaised("ValueError")
        /\ (failed_targets = {}) <=> (pc = "cleanup_owners")

\* C3 witness: the pass has ended with the error, the first attempt was the
\* one that failed, and the pairs after it were attempted all the same.
C3_Witness ==
    /\ AllSelectorsResolve
    /\ PatchesRaised("ValueError")
    /\ Len(applied) >= 2
    /\ failed_targets = {applied[1].target}
    /\ \A i \in 2..Len(applied) : applied[i].target # applied[1].target

\* The successfully patched targets: a patch was applied and none failed.
PatchedOk == checksums_for \ failed_targets

\* C2 (as claimed): when the aggregate patch error is raised, the manifest
\* of every successfully patched target matches the files on disk.
C2_ChecksumsDespiteFailure ==
    PatchesRaised("ValueError") =>
        \A t \in PatchedOk : vendor[t].checksum # None => ChecksumsMatch(vendor[t])

\* The crate a directory holds, from its Cargo.toml.
CrateOf(d) == vendor[d].files["Cargo.toml"]["package"]["name"]
VersionDirsOf(name) == {d \in DOMAIN vendor : CrateOf(d) = name}

\* C5 (as claimed): a selector naming an existing directory resolves to that
\* directory alone; otherwise a selector naming a crate resolves to every
\* version directory of the crate.
C5_SelectorResolution ==
    (pc \in {"patch_file", "patch_apply"}) =>
        LET name == patches[1][sel].name
        IN  /\ name \in DOMAIN vendor => patch_targets = <<name>>
            /\ (name \notin DOMAIN vendor /\ VersionDirsOf(name) # {})
                  => Range(patch_targets) = VersionDirsOf(name)

----------------------------------------------------------------------------
(* Claims about the pipeline.                                               *)

\* A directory whose sources were replaced by the stub.
IsStub(dir) ==
    /\ "src/lib.rs" \in DOMAIN dir.files
    /\ dir.files["src/lib.rs"] \in {EMPTY_CRATE_BODY, NOP_EMPTY_CRATE_BODY}
DestroyEnded ==
    pc = main_next("destroy_unused_crates")
        \/ (pc = "failed" /\ error.stage = "destroy_unused_crates")

\* C1 (as claimed): once apply_patches has ended, the manifest of every
\* package it applied a patch to matches the files on disk; once
\* destroy_unused_crates has ended, so does the manifest of every package it
\* destroyed.
C1_ManifestMatchesFiles ==
    /\ PatchesEnded =>
          \A d \in checksums_for : vendor[d].checksum # None => ChecksumsMatch(vendor[d])
    /\ DestroyEnded =>
          \A d \in DOMAIN vendor :
             (IsStub(vendor[d]) /\ vendor[d].checksum # None) => ChecksumsMatch(vendor[d])

\* The stage a position of main() belongs to, in the order of the pipeline.
StageNo(p) ==
    CASE p \in {"apply_patches", "patch_selector", "patch_file", "patch_apply",
                "patch_finish"} -> 1
      [] p = "cleanup_owners" -> 2
      [] p \in {"destroy_unused_crates", "destroy_loop"} -> 3
      [] p = "generate_license" -> 4
      [] p = "verify_traits" -> 5
      [] p = "done" -> 6
StageOfName(n) ==
    CASE n = "apply_patches" -> 1
      [] n = "destroy_unused_crates" -> 3
      [] n = "generate_license" -> 4
      [] n = "verify_traits" -> 5
\* The stage that is running, or that raised.
CurrentStage == IF pc = "failed" THEN StageOfName(error.stage) ELSE StageNo(pc)

DestroyUntouched == used_packages = {} /\ didx = 1 /\ cleaned_packages = <<>>
LicenseUntouched ==
    /\ lidx = 1 /\ license_map = EmptyDict /\ bad_licenses = EmptyDict
    /\ has_license_types = {} /\ map_file = None /\ shorthand_file = None
CrabUntouched == cidx = 1 /\ failing_crates = EmptyDict
NoStubs == \A d \in DOMAIN vendor : ~IsStub(vendor[d])
\* No stage after the current one has done anything.
LaterStagesUntouched ==
    /\ CurrentStage < 3 => (DestroyUntouched /\ NoStubs)
    /\ CurrentStage < 4 => LicenseUntouched
    /\ CurrentStage < 5 => CrabUntouched
\* Every stage before the current one ran to its end without a failure.
EarlierStagesCompleted ==
    /\ CurrentStage > 1 =>
          /\ ~patches_failed /\ failed_targets = {}
          /\ patches # None => (sel > Len(patches[1]) /\ AllSelectorsResolve)
    /\ CurrentStage > 3 => didx > Len(metaU)
    /\ CurrentStage > 4 =>
          /\ lidx > Len(metaF) /\ bad_licenses = EmptyDict /\ shorthand_file # None
    /\ CurrentStage > 5 => (cidx > Len(metaF) /\ failing_crates = EmptyDict)

\* C6: the stages run in the order patch, (owners cleanup,) destroy, license,
\* audit; a stage is entered only from the end of the stage before it, when
\* every earlier stage has run to its end without failure; after a failure
\* nothing runs any more, and the step that fails leaves the vendor tree as
\* the stages have made it.
C6_PipelineOrder ==
    /\ [](EarlierStagesCompleted /\ LaterStagesUntouched)
    /\ [][ /\ pc # "failed"
           /\ pc' # "failed" => StageNo(pc') \in {StageNo(pc), StageNo(pc) + 1}
           /\ pc' = "failed" => (vendor' = vendor /\ StageOfName(error'.stage) = StageNo(pc))
         ]_vars

\* C6 witness: the license stage failed after a crate was destroyed; the
\* stub is still in the tree and the audit has not run.
C6_Witness ==
    /\ pc = "failed" /\ error.stage = "generate_license"
    /\ \E d \in DOMAIN vendor : IsStub(vendor[d])
    /\ checksums_for # {}
    /\ CrabUntouched

----------------------------------------------------------------------------
(* SpecDestroy: destroy_unused_crates alone, on every package list of the   *)
(* bound and every state of the vendored directories.                       *)

\* The number of packages in the unfiltered metadata.
MaxPackages == 3

Foo2 == Pkg(Foo, V2, MitOnly)
DestroyPackages == {RootPkg, Foo1, Foo2, Win1}
PackageLists(n) == UNION {[1..k -> DestroyPackages] : k \in 0..n}

\* What may stand at a package's place under vendor/.
\* A Cargo.toml with few keys: an empty features table, and dependencies
\* under one target only; its directory holds a build script too.
BareCargoToml(name, version) ==
    ("package" :> ("name" :> name @@ "version" :> version))
    @@ "features" :> EmptyDict
    @@ "target" :> ("cfg(windows)" :> ("dependencies" :> "winapi"))
BareDir(name, version) ==
    [FreshDir(name, version, "build.rs" :> "fn main() {}", TRUE) EXCEPT
        !.files["Cargo.toml"] = BareCargoToml(name, version),
        !.checksum[1].files["Cargo.toml"] = Sha256(BareCargoToml(name, version))]
DirStates(p) ==
    {None, Some(FreshDir(p.name, p.version, EmptyDict, TRUE)),
           Some(FreshDir(p.name, p.version, "LICENSE" :> "mit text", FALSE)),
           Some(BareDir(p.name, p.version))}
VendorOf(f1, f2, w) ==
    LET put(p, st) == IF st = None THEN EmptyDict
                      ELSE DirName(p.name, p.version) :> st[1]
    IN  put(Foo1, f1) @@ put(Foo2, f2) @@ put(Win1, w)

InitDestroy ==
    /\ StageLocalsInit /\ pc = "destroy_unused_crates"
    /\ patches = None /\ crab_files = EmptyDict /\ args = NoArgs
    /\ metaU \in PackageLists(MaxPackages)
    \* cargo metadata --filter-platform: the packages the platform needs.
    /\ \E linux \in SUBSET (DestroyPackages \ {RootPkg}) :
          metaF = SelectSeq(metaU, LAMBDA p : p.virtual \/ p \in linux)
    /\ \E f1 \in DirStates(Foo1), f2 \in DirStates(Foo2), w \in DirStates(Win1) :
          vendor = VendorOf(f1, f2, w)

NextDestroy ==
    \/ destroy_begin
    \/ destroy_loop

SpecDestroy == InitDestroy /\ [][NextDestroy]_vars

----------------------------------------------------------------------------
(* Claims about destroy_unused_crates.                                      *)

Identity(p) == <<p.name, p.version>>
Identities(packages) == {Identity(p) : p \in Range(packages)}
DestroyReturned == pc = main_next("destroy_unused_crates")

\* C7 (as claimed): after destroy_unused_crates, every package of U whose
\* identity (name, version) is not in F and whose vendor directory exists has
\* the stub for its sources and a manifest that matches its files.
C7_UnusedAreStubs ==
    DestroyReturned =>
        \A i \in DOMAIN metaU :
            LET d == DirName(metaU[i].name, metaU[i].version)
            IN  (Identity(metaU[i]) \notin Identities(metaF) /\ IsDir(vendor, d))
                    => /\ IsStub(vendor[d])
                       /\ DOMAIN vendor[d].files = {"Cargo.toml", "src/lib.rs"}
                       /\ vendor[d].checksum # None
                       /\ ChecksumsMatch(vendor[d])

----------------------------------------------------------------------------
(* SpecCrab: verify_traits alone, on every package list of the bound and    *)
(* every state of the crab files.                                           *)

\* What may stand at crab/crates/<name>-<version>.toml: nothing, or a record
\* with crate_name, version and the common table.
CrabRecords(p) ==
    {None, Some(CrabOk(p)), Some(CrabDenied(p)),
     Some([crate_name |-> p.name, version |-> p.version, common |-> EmptyDict]),
     Some([CrabOk(p) EXCEPT !.crate_name = GrpcioSys]),
     Some([CrabOk(p) EXCEPT !.version = V1beta])}
CrabDirOf(r1, r2, w) ==
    LET put(p, r) == IF r = None THEN EmptyDict
                     ELSE DirName(p.name, p.version) :> r[1]
    IN  put(Foo1, r1) @@ put(Foo2, r2) @@ put(Win1, w)

InitCrab ==
    /\ StageLocalsInit /\ pc = "verify_traits"
    /\ patches = None /\ vendor = EmptyDict /\ args = NoArgs
    /\ metaF \in PackageLists(MaxPackages)
    /\ metaU = metaF
    /\ \E r1 \in CrabRecords(Foo1), r2 \in CrabRecords(Foo2), w \in CrabRecords(Win1) :
          crab_files = CrabDirOf(r1, r2, w)

NextCrab ==
    \/ crab_loop
    \/ crab_finish

SpecCrab == InitCrab /\ [][NextCrab]_vars

----------------------------------------------------------------------------
(* Claims about verify_traits.                                              *)

CrabName(p) == DirName(p.name, p.version)
\* The packages that fail the audit, by the records on disk.
FailsAudit(p) ==
    /\ ~p.virtual
    /\ \/ CrabName(p) \notin DOMAIN crab_files
       \/ crab_files[CrabName(p)].crate_name # p.name
       \/ crab_files[CrabName(p)].version # p.version
       \/ /\ "deny" \in DOMAIN crab_files[CrabName(p)].common
          /\ crab_files[CrabName(p)].common["deny"] = TRUE
FailingOf(packages) == {CrabName(p) : p \in {q \in Range(packages) : FailsAudit(q)}}
CrabEnded == pc \in {"failed", main_next("verify_traits")}

\* C8: while verify_traits scans, the reported packages are exactly the
\* failing ones among those examined so far; the stage ends only after the
\* last package, with the failing packages of the whole list reported, and
\* raises if and only if there is one.
C8_AllFailuresReported ==
    /\ DOMAIN failing_crates = FailingOf(SubSeq(metaF, 1, cidx - 1))
    /\ CrabEnded =>
          /\ cidx = Len(metaF) + 1
          /\ DOMAIN failing_crates = FailingOf(metaF)
          /\ (error = [stage |-> "verify_traits", exc |-> "ValueError"])
                <=> (FailingOf(metaF) # {})
          /\ (pc = main_next("verify_traits")) <=> (FailingOf(metaF) = {})

\* C8 witness: a package without a record came first, a package with a
\* denied record and a package with a mismatching record came after it, and
\* the stage raised with the three of them reported.
C8_Witness ==
    /\ CrabEnded /\ Len(metaF) = 3
    /\ CrabName(metaF[1]) \notin DOMAIN crab_files
    /\ Cardinality(DOMAIN failing_crates) = 3
    /\ \E k \in DOMAIN failing_crates : failing_crates[k] = "Failed bad traits check"
    /\ \E k \in DOMAIN failing_crates : failing_crates[k] = "Crate name or version don't match"
    /\ error.exc = "ValueError"

----------------------------------------------------------------------------
(* SpecLicense: generate_license alone, on the package lists and the        *)
(* license files of the bounds.                                             *)

\* The number of packages in the filtered metadata, and of license files in
\* a vendored directory.
MaxLicensePackages == 2
MaxLicenseFiles == 2

LicenseExprs ==
    {ApacheOrMit, <<"MIT ", "/", " Apache-2.0">>, MitOnly, <<"MIT", "/", "ISC">>,
     <<"MIT", " OR ", "BSD-3-Clause">>, <<"ISC", " OR ", "Zlib">>, <<>>,
     <<"GPL-3.0">>, UNICODE_COMPOUND}
\* The packages that may come before the last one, and the last one.
EarlierPackages ==
    {RootPkg, Pkg(GrpcioSys, V1, <<"Apache-2.0">>),
     Pkg(Riscv, V1, <<"ISC", " OR ", "Apache-2.0">>), Foo2,
     Pkg(Foo, V2, ApacheOrMit), Pkg(Foo, V2, UNICODE_COMPOUND),
     Pkg(Bar, V1, ApacheOrMit)}
LastPackages == {Pkg(Foo, V1, l) : l \in LicenseExprs}
LicenseLists(n) ==
    LET earlier == UNION {[1..k -> EarlierPackages] : k \in 0..(n - 1)}
    IN  earlier \cup {Append(e, p) : e \in earlier, p \in LastPackages}

LicenseNames == {"LICENSE", "LICENSE-MIT", "LICENSE-APACHE", "LICENSE-UNICODE"}
LicenseContents(name) ==
    CASE name = "LICENSE" ->
            {"mit text", "apache text", "bsd3 text", "bsd3 text, LIMITED", "isc text"}
      [] name = "LICENSE-MIT" -> {"mit text", "bsd3 text"}
      [] name = "LICENSE-APACHE" -> {"apache text"}
      [] OTHER -> {"unicode text"}
LicenseFileSets(n) ==
    UNION {{f \in [S -> UNION {LicenseContents(p) : p \in S}] :
                \A p \in S : f[p] \in LicenseContents(p)}
           : S \in {T \in SUBSET LicenseNames : Cardinality(T) <= n}}

InitLicense ==
    /\ StageLocalsInit /\ pc = "generate_license"
    /\ patches = None /\ crab_files = EmptyDict
    /\ metaF \in LicenseLists(MaxLicensePackages)
    /\ metaU = metaF
    /\ args \in {NoArgs, [NoArgs EXCEPT !.skip_license_check = {Foo}],
                 [NoArgs EXCEPT !.license_map = TRUE]}
    /\ \E foo1 \in {None} \cup {Some(f) : f \in LicenseFileSets(MaxLicenseFiles)} :
          /\ (\A i \in DOMAIN metaF : metaF[i] \notin LastPackages) => foo1 = Some(EmptyDict)
          /\ vendor = (IF foo1 = None THEN EmptyDict
                       ELSE DirName(Foo, V1) :> FreshDir(Foo, V1, foo1[1], TRUE))
                      @@ (DirName(Foo, V2) :>
                             FreshDir(Foo, V2, "LICENSE" :> "mit text", TRUE))
                      @@ (DirName(Bar, V1) :>
                             FreshDir(Bar, V1, "LICENSE-APACHE" :> "apache text", TRUE))

NextLicense ==
    \/ license_loop
    \/ license_finish

SpecLicense == InitLicense /\ [][NextLicense]_vars

----------------------------------------------------------------------------
(* Claims about generate_license.  They are about one pass of the loop: the *)
(* license map is keyed by the package name, so that what a pass records    *)
(* for a package may be replaced by a later package of the same name.       *)

\* The loop is about to examine package p.
Examining(p) == pc = "generate_license" /\ lidx <= Len(metaF) /\ p = metaF[lidx]
ApacheAmongTerms(p) == APACHE_LICENSE \in Range(licenses_or_of(p.license))
\* The pass selected Apache-2.0 for p, with no license file and no failure.
ApacheSelected(p) ==
    /\ pc' = "generate_license" /\ lidx' = lidx + 1
    /\ p.name \in DOMAIN license_map'
    /\ license_map'[p.name] = [license |-> APACHE_LICENSE]
    /\ APACHE_LICENSE \in has_license_types'
    /\ bad_licenses' = bad_licenses

\* C9 (as claimed): whenever Apache-2.0 is among the supported terms of a
\* package's license expression, the pass over that package selects
\* Apache-2.0 for it, with no license file and no failure.
C9_ApacheAlwaysSelected ==
    [][\A p \in Range(metaF) :
          (Examining(p) /\ ApacheAmongTerms(p)) => ApacheSelected(p)]_vars

\* The packages the resolver classifies from their license expression: not
\* skipped, without a static override, and with a vendored directory.
Classified(p) ==
    /\ ~is_skipped(p)
    /\ p.name \notin DOMAIN STATIC_LICENSE_MAP
    /\ IsDir(vendor, DirName(p.name, p.version))

\* C9 (amended): for a package that is not skipped (virtual, exempted on the
\* command line or a license alias), has no static override and whose vendored
\* directory exists, whenever Apache-2.0 is among the supported terms of its
\* license expression the pass over it selects Apache-2.0, with no license
\* file and no failure, whatever license files the directory holds.
C9_ApacheSelectedWhenClassified ==
    [][\A p \in Range(metaF) :
          (Examining(p) /\ Classified(p) /\ ApacheAmongTerms(p)) => ApacheSelected(p)]_vars

\* C9 witness: "MIT OR Apache-2.0" with LICENSE-MIT and LICENSE-APACHE in
\* the directory was examined, and Apache-2.0 stands in the map without a file.
C9_Witness ==
    /\ lidx > 1 /\ metaF[lidx - 1] = Foo1 /\ Classified(Foo1)
    /\ {"LICENSE-MIT", "LICENSE-APACHE"} \subseteq Range(license_files)
    /\ Foo \in DOMAIN license_map /\ license_map[Foo] = [license |-> APACHE_LICENSE]
    /\ Foo \notin DOMAIN bad_licenses

\* The license a file's text is.
ContentKind(content) ==
    CASE content = "mit text" -> "MIT"
      [] content \in {"bsd3 text", "bsd3 text, LIMITED"} -> "BSD-3"
      [] content = "isc text" -> "ISC"
      [] OTHER -> ""
\* The places in the preference order of the kinds that are among the terms
\* and that some candidate file matches by its content.
MatchedKinds(terms, files, dir) ==
    {k \in DOMAIN PREFERRED_ATTRIB_LICENSE_ORDER :
        /\ PREFERRED_ATTRIB_LICENSE_ORDER[k] \in Range(terms)
        /\ \E i \in DOMAIN files :
              ContentKind(dir.files[files[i]]) = PREFERRED_ATTRIB_LICENSE_ORDER[k]}
Least(S) == CHOOSE x \in S : \A y \in S : x <= y

\* C10 (as claimed): for a package the resolver classifies, with more than
\* one supported term and without Apache-2.0, the pass selects the first kind
\* of (MIT, BSD-3, ISC) that is among the terms and that some candidate file
\* matches by content, and records the first such file.
C10_FirstPreferredByContent ==
    [][\A p \in Range(metaF) :
          LET terms == licenses_or_of(p.license)
              d == DirName(p.name, p.version)
              files == license_files'
              kinds == MatchedKinds(terms, files, vendor[d])
              kind == PREFERRED_ATTRIB_LICENSE_ORDER[Least(kinds)]
              file == files[Least({i \in DOMAIN files :
                                      ContentKind(vendor[d].files[files[i]]) = kind})]
          IN  (/\ Examining(p) /\ Classified(p)
               /\ Len(terms) > 1 /\ APACHE_LICENSE \notin Range(terms)
               /\ kinds # {})
                  => /\ p.name \in DOMAIN license_map'
                     /\ license_map'[p.name] =
                           [license |-> kind, license_file |-> RelPath(d, file)]]_vars

\* The package has exactly one supported term, and it is not Apache-2.0.
SingleTerm(p) ==
    LET terms == licenses_or_of(p.license)
    IN  Len(terms) = 1 /\ terms[1] # APACHE_LICENSE
CandidatesOf(p) ==
    LET d == DirName(p.name, p.version)
    IN  IF IsDir(vendor, d) THEN license_candidates(vendor[d]) ELSE {}
\* The pass over p recorded the failure and no entry, or the term with the
\* first candidate file.
SingleTermOutcome(p) ==
    IF CandidatesOf(p) = {}
    THEN /\ p.name \in DOMAIN bad_licenses'
         /\ bad_licenses'[p.name] = [reason |-> "missing license file",
                                     license |-> licenses_or_of(p.license)]
         /\ license_map' = license_map
         /\ pc' = "generate_license" /\ lidx' = lidx + 1
    ELSE /\ license_files' \in Orderings(CandidatesOf(p))
         /\ p.name \in DOMAIN license_map'
         /\ license_map'[p.name] =
               [license |-> licenses_or_of(p.license)[1],
                license_file |-> RelPath(DirName(p.name, p.version), license_files'[1])]
         /\ bad_licenses' = bad_licenses
         /\ pc' = "generate_license" /\ lidx' = lidx + 1

LicenseRaised ==
    /\ pc = "failed" /\ error.stage = "generate_license"
    /\ error.exc \in {"ValueError", "Exception"}

\* C12 (as claimed): generate_license raises a license error only after the
\* whole package list has been processed, whatever the cause of the failure.
C12_NoAbortOnFirstFailure ==
    LicenseRaised => lidx > Len(metaF)

\* C13 (as claimed): whenever generate_license ends with a license error,
\* neither the license map file nor the license shorthand file has been
\* written.
C13_NoArtifactsOnError ==
    LicenseRaised => (map_file = None /\ shorthand_file = None)

LicenseSucceeded == pc = main_next("generate_license")
\* The packages whose selected license is Apache-2.0 (C9).
ApachePackages ==
    {i \in DOMAIN metaF : ApacheAmongTerms(metaF[i]) /\ ~is_skipped(metaF[i])
                          /\ metaF[i].name \notin DOMAIN STATIC_LICENSE_MAP}

\* C14 (as claimed): if any package has the compound expression,
\* generate_license succeeds only if Apache-2.0 is among the license kinds
\* the run used.
C14_CompoundNeedsApacheAlways ==
    (LicenseSucceeded /\ \E i \in DOMAIN metaF : metaF[i].license = UNICODE_COMPOUND)
        => (APACHE_LICENSE \in has_license_types /\ ApachePackages # {})

\* C14 (amended): if any package that is not skipped and has no static
\* override has the compound expression, generate_license succeeds only if
\* Apache-2.0 is among the license kinds the run used, that is, only if it
\* selected Apache-2.0 for some package.
C14_CompoundNeedsApache ==
    (LicenseSucceeded /\ \E i \in DOMAIN metaF :
                            /\ metaF[i].license = UNICODE_COMPOUND
                            /\ ~is_skipped(metaF[i])
                            /\ metaF[i].name \notin DOMAIN STATIC_LICENSE_MAP)
        => (APACHE_LICENSE \in has_license_types /\ ApachePackages # {})

\* C14 witness: bar ("MIT OR Apache-2.0") and then foo 1 (the compound
\* expression, with LICENSE-UNICODE) were examined and the run succeeded.
C14_Witness ==
    /\ LicenseSucceeded
    /\ metaF = <<Pkg(Bar, V1, ApacheOrMit), Pkg(Foo, V1, UNICODE_COMPOUND)>>
    /\ has_unicode_license
    /\ Foo \in DOMAIN license_map /\ license_map[Foo].license = UNICODE_COMPOUND_STR
    /\ shorthand_file = Some(<<"Apache-2.0", "unicode">>)

\* The license kind of a map entry: the compound expression counts as the
\* kind "unicode" (line 475).
KindOf(entry) ==
    IF entry.license = UNICODE_COMPOUND_STR THEN "unicode" ELSE entry.license
\* The kinds that the pass over package p can select.
KindsFor(p) ==
    IF is_skipped(p) THEN {}
    ELSE IF p.name \in DOMAIN STATIC_LICENSE_MAP THEN {STATIC_LICENSE_MAP[p.name].license}
    ELSE IF p.license = UNICODE_COMPOUND THEN {"unicode"}
    ELSE Range(licenses_or_of(p.license))
KindRank(k) == CHOOSE i \in DOMAIN LicenseOrder : LicenseOrder[i] = k

\* C15 (as claimed): on success the shorthand file lists, in ascending order
\* and without duplicates, the license kind of every entry of the license
\* map, and no kind that was selected for no package.
C15_ShorthandListsUsedKinds ==
    LicenseSucceeded =>
        /\ shorthand_file # None
        /\ LET listed == shorthand_file[1]
           IN  /\ \A i, j \in DOMAIN listed :
                     i < j => KindRank(listed[i]) < KindRank(listed[j])
               /\ \A n \in DOMAIN license_map : KindOf(license_map[n]) \in Range(listed)
               /\ \A k \in Range(listed) : \E i \in DOMAIN metaF : k \in KindsFor(metaF[i])

\* C16: whenever generate_license has completed successfully, every entry of
\* the license map that has no license_file has Apache-2.0 as its license.
C16_NoFileOnlyForApache ==
    LicenseSucceeded =>
        \A n \in DOMAIN license_map :
            "license_file" \notin DOMAIN license_map[n]
                => license_map[n].license = "Apache-2.0"

\* C16 witness: the run succeeded with an entry without a license file
\* (bar, Apache-2.0) and an entry with one (foo, MIT).
C16_Witness ==
    /\ LicenseSucceeded
    /\ metaF = <<Pkg(Bar, V1, ApacheOrMit), Pkg(Foo, V1, MitOnly)>>
    /\ license_map[Bar] = [license |-> "Apache-2.0"]
    /\ "license_file" \in DOMAIN license_map[Foo] /\ license_map[Foo].license = "MIT"

----------------------------------------------------------------------------
(* SpecChecksums: _rerun_checksums alone, called on a package directory in  *)
(* every state of its files and of its manifest, and called again after     *)
(* the files have changed.                                                  *)

\* The number of files a package directory may hold.
MaxChecksumFiles == 3

ChecksumPathList == <<"Cargo.toml", "src/lib.rs", "new.rs", "build.rs">>
ChecksumPaths(n) == {ChecksumPathList[i] : i \in 1..n}
FileContents == {"orig", "patched"}
FileSets(n) == UNION {[S -> FileContents] : S \in SUBSET ChecksumPaths(n)}
\* cargo vendor writes a directory with the manifest of its files; a
\* directory may also come without one.
InitChecksums ==
    /\ StageLocalsInit /\ pc = "_rerun_checksums"
    /\ patches = None /\ metaU = <<>> /\ metaF = <<>>
    /\ crab_files = EmptyDict /\ args = NoArgs
    /\ \E f \in FileSets(MaxChecksumFiles), sidecar \in BOOLEAN :
          vendor = (DirName(Foo, V1) :>
                      [files |-> f,
                       checksum |-> IF sidecar
                                    THEN Some([files |-> [p \in DOMAIN f |-> Sha256(f[p])],
                                               package |-> "package sha256"])
                                    ELSE None])

\* _rerun_checksums(package_path) on the directory.
rerun_checksums_call ==
    /\ pc = "_rerun_checksums"
    /\ vendor' = [d \in DOMAIN vendor |-> _rerun_checksums(vendor[d])]
    /\ pc' = "returned"
    /\ UNCHANGED <<inputVars, error, patchVars, destroyVars, licenseVars, crabVars>>

\* A patch or a script writes or removes a file of the directory before the
\* next call.
files_change ==
    /\ pc \in {"_rerun_checksums", "returned"}
    /\ \E d \in DOMAIN vendor, p \in ChecksumPaths(MaxChecksumFiles) :
          \/ \E c \in FileContents :
                vendor' = [vendor EXCEPT ![d].files = Write(vendor[d].files, p, c)]
          \/ /\ p \in DOMAIN vendor[d].files
             /\ vendor' = [vendor EXCEPT ![d].files = Remove(vendor[d].files, p)]
    /\ pc' = "_rerun_checksums"
    /\ UNCHANGED <<inputVars, error, patchVars, destroyVars, licenseVars, crabVars>>

NextChecksums ==
    \/ rerun_checksums_call
    \/ files_change

SpecChecksums == InitChecksums /\ [][NextChecksums]_vars

----------------------------------------------------------------------------
(* Claims about _rerun_checksums.                                           *)

\* C17 (as claimed): when _rerun_checksums has returned for a directory that
\* has a manifest, the manifest's files mapping is exactly the files under
\* the directory, whatever the mapping and the files were, also when no file
\* remains.
C17_ChecksumsAreExact ==
    pc = "returned" =>
        \A d \in DOMAIN vendor :
            vendor[d].checksum # None => ChecksumsMatch(vendor[d])

----------------------------------------------------------------------------
(* More claims about destroy_unused_crates.                                 *)

\* The directory of the package the loop of destroy_unused_crates is at.
DestroyDir == DirName(metaU[didx].name, metaU[didx].version)
\* destroy_unused_crates raised at a package whose directory has no sidecar.
RaisedAtMissingSidecar ==
    /\ pc = "failed" /\ error.stage = "destroy_unused_crates"
    /\ didx \in DOMAIN metaU
    /\ IsDir(vendor, DestroyDir) /\ vendor[DestroyDir].checksum = None

\* C18 (as claimed): a package directory without a checksum sidecar never
\* causes an error and never gets a sidecar: destroying it completes without
\* raising, and no step creates a manifest for it.
C18_MissingSidecarIsBenign ==
    /\ [](~RaisedAtMissingSidecar)
    /\ [][\A d \in DOMAIN vendor :
             vendor[d].checksum = None
                 => (d \in DOMAIN vendor' /\ vendor'[d].checksum = None)]_vars

\* The packages of U that are not in F by identity, with and without a
\* vendored directory.
UnusedPlaces == {i \in DOMAIN metaU : Identity(metaU[i]) \notin Identities(metaF)}
PlaceDir(i) == DirName(metaU[i].name, metaU[i].version)
AbsentPlaces == {i \in UnusedPlaces : ~IsDir(vendor, PlaceDir(i))}

\* C19 (as claimed): a package of U \ F whose vendor directory does not exist
\* is skipped: the stage does not raise at it, no directory is created, and
\* when the stage returns every other package of U \ F has been destroyed.
C19_AbsentIsSkipped ==
    /\ [](~(/\ pc = "failed" /\ error.stage = "destroy_unused_crates"
            /\ didx \in AbsentPlaces))
    /\ [][DOMAIN vendor' = DOMAIN vendor]_vars
    /\ []((DestroyReturned /\ AbsentPlaces # {}) =>
             \A i \in UnusedPlaces \ AbsentPlaces :
                 IsStub(vendor[PlaceDir(i)]) /\ ChecksumsMatch(vendor[PlaceDir(i)]))

\* The Cargo.toml of a destroyed package holds none of the keys.
NoDependencyKeys(t) ==
    /\ DOMAIN t \cap DependencyKeys = {}
    /\ "target" \in DOMAIN t =>
          \A k \in DOMAIN t["target"] :
              /\ DOMAIN t["target"][k] \cap DependencyKeys = {}
              /\ DOMAIN t["target"][k] # {}
NoSourceKeys(t) ==
    /\ DOMAIN t \cap {"bin", "example", "bench", "test"} = {}
    /\ "package" \in DOMAIN t => DOMAIN t["package"] \cap {"build", "include"} = {}
    /\ "lib" \in DOMAIN t => "path" \notin DOMAIN t["lib"]

\* C20 (as claimed): the Cargo.toml of a destroyed package has no
\* dependencies, build-dependencies or dev-dependencies at top level or under
\* a target entry, no empty target entry, no bin, example, bench or test
\* section, and no build, lib.path or include key.
C20_NoBuildAffectingKeys ==
    \A d \in DOMAIN vendor :
        IsStub(vendor[d]) =>
            /\ NoDependencyKeys(vendor[d].files["Cargo.toml"])
            /\ NoSourceKeys(vendor[d].files["Cargo.toml"])

\* The step destroyed the package directory d: its sources became the stub.
Destroyed(d) ==
    /\ pc = "destroy_loop" /\ d \in DOMAIN vendor /\ d \in DOMAIN vendor'
    /\ vendor'[d] # vendor[d] /\ IsStub(vendor'[d])
TomlOf(dir) == dir.files["Cargo.toml"]

\* C21: the step that destroys a package leaves the name and the version in
\* its Cargo.toml as they were, and leaves every feature name defined, with
\* the empty list for its value.
C21_IdentityAndFeaturesKept ==
    [][\A d \in DOMAIN vendor :
          Destroyed(d) =>
              LET old == TomlOf(vendor[d])
                  new == TomlOf(vendor'[d])
              IN  /\ "package" \in DOMAIN new
                  /\ new["package"]["name"] = old["package"]["name"]
                  /\ new["package"]["version"] = old["package"]["version"]
                  /\ "features" \in DOMAIN old =>
                        /\ "features" \in DOMAIN new
                        /\ DOMAIN new["features"] = DOMAIN old["features"]
                        /\ \A f \in DOMAIN new["features"] : new["features"][f] = <<>>]_vars

\* C21 witness: foo 1 was destroyed; its Cargo.toml still names foo 1 and
\* still defines the features default and std, both empty.
C21_Witness ==
    /\ DestroyReturned /\ IsDir(vendor, DirName(Foo, V1))
    /\ IsStub(vendor[DirName(Foo, V1)])
    /\ LET t == TomlOf(vendor[DirName(Foo, V1)])
       IN  /\ t["package"]["name"] = Foo /\ t["package"]["version"] = V1
           /\ t["features"] = ("default" :> <<>> @@ "std" :> <<>>)

\* C22: the step that destroys a package leaves in its directory exactly
\* Cargo.toml, the checksum sidecar and src/lib.rs, whose body is the
\* commented-out body if the package name is in NOP_EMPTY_CRATES and the
\* compile error otherwise.
C22_StubContents ==
    [][\A d \in DOMAIN vendor :
          Destroyed(d) =>
              /\ d = DestroyDir
              /\ DOMAIN vendor'[d].files = {"Cargo.toml", "src/lib.rs"}
              /\ vendor'[d].checksum # None
              /\ vendor'[d].files["src/lib.rs"] =
                    IF metaU[didx].name \in NOP_EMPTY_CRATES
                    THEN NOP_EMPTY_CRATE_BODY ELSE EMPTY_CRATE_BODY]_vars

\* C22 witness: windows 1 (in the allowlist, with a build script in its
\* directory) and foo 1 were destroyed, each with its body.
C22_Witness ==
    /\ DestroyReturned
    /\ IsDir(vendor, DirName(Foo, V1)) /\ IsDir(vendor, DirName(Windows, V1))
    /\ vendor[DirName(Foo, V1)].files["src/lib.rs"] = EMPTY_CRATE_BODY
    /\ vendor[DirName(Windows, V1)].files["src/lib.rs"] = NOP_EMPTY_CRATE_BODY
    /\ TomlOf(vendor[DirName(Windows, V1)]) = _modify_cargo_toml(BareCargoToml(Windows, V1))
    /\ DOMAIN vendor[DirName(Windows, V1)].files = {"Cargo.toml", "src/lib.rs"}

\* C23 (as claimed): when the package scan of generate_license is over, every
\* package that was not skipped is in the license map or in the failure set.
C23_NoPackageDropped ==
    (pc = "generate_license" /\ lidx > Len(metaF)) =>
        \A i \in DOMAIN metaF :
            ~is_skipped(metaF[i]) =>
                \/ metaF[i].name \in DOMAIN license_map
                \/ metaF[i].name \in DOMAIN bad_licenses

\* The loop of destroy_unused_crates is at an unused package whose directory
\* has been destroyed before.
AtDestroyedAgain ==
    /\ pc = "destroy_loop" /\ didx \in DOMAIN metaU
    /\ ~is_used(metaU[didx], used_packages)
    /\ IsDir(vendor, DestroyDir) /\ IsStub(vendor[DestroyDir])

\* C24: destroying a package that has been destroyed before (the metadata
\* lists it again) raises nothing and leaves its directory, stub, Cargo.toml
\* and sidecar, as the first destruction left it.
C24_DestructionIsIdempotent ==
    [][AtDestroyedAgain =>
          /\ vendor' = vendor
          /\ pc' = "destroy_loop" /\ error' = error
          /\ didx' = didx + 1]_vars

\* C24 witness: the metadata lists foo 1 twice, it was destroyed twice, and
\* its manifest matches the stub.
C24_Witness ==
    /\ DestroyReturned /\ metaU = <<Foo1, Foo1>> /\ metaF = <<>>
    /\ cleaned_packages = <<Foo, Foo>>
    /\ IsStub(vendor[DirName(Foo, V1)]) /\ ChecksumsMatch(vendor[DirName(Foo, V1)])

\* The directory d is the place of a package of the platform-filtered
\* metadata; the directory d is the place of no package of the unfiltered
\* metadata.
OfFiltered(d) ==
    \E i \in DOMAIN metaF : DirName(metaF[i].name, metaF[i].version) = d
OfNoPackage(d) ==
    \A i \in DOMAIN metaU : DirName(metaU[i].name, metaU[i].version) # d

\* C25: no step of destroy_unused_crates changes a vendor directory of a
\* package of the platform-filtered metadata, nor a vendor directory that is
\* the place of no package of the unfiltered metadata: files, Cargo.toml and
\* checksum sidecar stay as they were.
C25_OthersUntouched ==
    [][\A d \in DOMAIN vendor :
          (OfFiltered(d) \/ OfNoPackage(d)) =>
              d \in DOMAIN vendor' /\ vendor'[d] = vendor[d]]_vars

\* C25 witness: windows 1 was destroyed while foo 1, which the platform
\* needs, and foo 2, which the metadata does not list, are as vendored.
C25_Witness ==
    /\ DestroyReturned
    /\ metaU = <<Foo1, Win1>> /\ metaF = <<Foo1>>
    /\ cleaned_packages = <<Win1.name>>
    /\ IsDir(vendor, DirName(Win1.name, Win1.version))
    /\ IsStub(vendor[DirName(Win1.name, Win1.version)])
    /\ IsDir(vendor, DirName(Foo, V1))
    /\ vendor[DirName(Foo, V1)] = FreshDir(Foo, V1, EmptyDict, TRUE)
    /\ IsDir(vendor, DirName(Foo, V2))
    /\ vendor[DirName(Foo, V2)] = BareDir(Foo, V2)

====
